---- MODULE Spec2Model ----
(***************************************************************************)
(* Model of spacy_llm/tasks/entity_linker/util.py:                         *)
(*   - SpaCyPipelineCandidateSelector (__init__, __call__,                 *)
(*     get_entity_description)                                             *)
(*   - EntLinkExample.generate                                             *)
(* An exception leaving an operation is recorded in `raised`, and the      *)
(* operation then has no return value (ret = NoReturn).  Prior             *)
(* probabilities are ranks (a larger number is a larger float); only their *)
(* order is used by the code.                                              *)
(* The knowledge base, the csv reader and the fetch_entity_info resolver   *)
(* are collaborators: the knowledge base answers a batch with one list of  *)
(* candidates per mention (what `assert isinstance(cands, list)` expects), *)
(* the reader with rows of fields, the resolver with any pair of           *)
(* sequences.  The example's text and mentions_str fields are renderings   *)
(* of the document computed outside this file and are left out.            *)
(***************************************************************************)
EXTENDS Integers, Sequences, FiniteSets, TLC

VARIABLES
    sel,            \* selector object: "new" | "ready" | "failed"
    has_linker,     \* "entity_linker" in self._nlp.component_names
    csvfile,        \* rows csv.reader yields for desc_path
    top_n_arg,      \* the top_n argument of __init__
    descs,          \* self._descs
    top_n,          \* self._top_n
    kb,             \* knowledge base: mention -> candidate list it produces
    mentions,       \* argument of the last __call__
    all_cands,      \* the list objects get_candidates_batch returned, as they are now
    doc,            \* example.reference.ents of the gold document
    fetch_called,   \* the last generate invoked kwargs["fetch_entity_info"]
    fetched_info,   \* what that invocation handed back
    op,             \* last operation run
    ret,            \* its return value
    raised,         \* exception that left it ("" when none)
    warned          \* number of warnings.warn calls it made

vars == <<sel, has_linker, csvfile, top_n_arg, descs, top_n, kb,
          mentions, all_cands, doc, fetch_called, fetched_info,
          op, ret, raised, warned>>

----------------------------------------------------------------------------
(* Bounds and value universes *)

MaxRows == 3
MaxTopN == 2
MaxCands == 3
MaxMentions == 2
MaxEnts == 2

\* what an operation hands back: nothing (it raised), None, or a value
NoReturn == [kind |-> "NoReturn"]
None == [kind |-> "None"]
Value(v) == [kind |-> "value", value |-> v]

Ids == {"Q1", "Q2", "Q3"}
Descriptions == {"", "d1"}
Probs == {1, 2}
Mentions == {"m1", "m2"}
TopNs == (0 - 1) .. MaxTopN

SeqsUpTo(S, n) == UNION {[1..k -> S] : k \in 0..n}

WellFormedRows == {<<i, d>> : i \in Ids, d \in Descriptions}
MalformedRows == {<< >>, <<"Q1">>, <<"Q1", "d1", "d1">>}
Rows == WellFormedRows \cup MalformedRows
Tables == SeqsUpTo(Rows, MaxRows)

Candidates == [entity_ : Ids, prior_prob : Probs]
CandLists == {s \in SeqsUpTo(Candidates, MaxCands) :
                 \A i, j \in 1..Len(s) : i # j => s[i].entity_ # s[j].entity_}
\* "m1" is an ambiguous alias, "m2" an alias of at most one entity
KBs == {k \in [Mentions -> CandLists] : Len(k["m2"]) <= 1}

----------------------------------------------------------------------------
(* Pure helpers *)

EmptyDict == << >>

DictSetKeepFirst(d, k, v) ==
    [x \in (DOMAIN d) \cup {k} |-> IF x \in DOMAIN d THEN d[x] ELSE v]
\* self._descs[row[0]] = row[1]
DictSet(d, k, v) == [x \in (DOMAIN d) \cup {k} |-> IF x = k THEN v ELSE d[x]]

RECURSIVE ParseDescs(_)
ParseDescs(rows) ==
    IF rows = << >> THEN EmptyDict
    ELSE LET n == Len(rows)
             d == ParseDescs(SubSeq(rows, 1, n - 1))
             row == rows[n]
         IN IF Len(row) # 2 THEN d ELSE DictSet(d, row[1], row[2])

Reverse(s) == [i \in 1..Len(s) |-> s[Len(s) + 1 - i]]

\* binary insertion of x after every element whose key is <= x's key
InsertAsc(s, x) ==
    LET p == Cardinality({i \in 1..Len(s) : s[i].prior_prob <= x.prior_prob})
    IN SubSeq(s, 1, p) \o <<x>> \o SubSeq(s, p + 1, Len(s))

RECURSIVE StableSortAsc(_)
StableSortAsc(s) ==
    IF s = << >> THEN << >>
    ELSE InsertAsc(StableSortAsc(SubSeq(s, 1, Len(s) - 1)), s[Len(s)])

SortByPriorDescTiesReversed(s) == Reverse(StableSortAsc(s))
\* list.sort(key=lambda x: x.prior_prob, reverse=True): the list is reversed,
\* sorted stably in ascending order and reversed again
SortByPriorDesc(s) == Reverse(StableSortAsc(Reverse(s)))

\* s[:k]
SliceTo(s, k) ==
    LET n == Len(s)
        e == IF k >= 0 THEN (IF k < n THEN k ELSE n)
             ELSE (IF n + k > 0 THEN n + k ELSE 0)
    IN SubSeq(s, 1, e)

EntityCandidate(id, description) == [id |-> id, description |-> description]

GetCandidatesBatchReversed(k, ms) ==
    [i \in 1..Len(ms) |-> k[ms[Len(ms) + 1 - i]]]
\* self._kb.get_candidates_batch(mentions)
GetCandidatesBatch(k, ms) == [i \in 1..Len(ms) |-> k[ms[i]]]

----------------------------------------------------------------------------
(* SpaCyPipelineCandidateSelector.__init__ *)

SelectorInit ==
    /\ sel = "new"
    /\ op' = "__init__"
    /\ warned' = 0
    /\ ret' = NoReturn
    /\ IF ~has_linker
       THEN /\ raised' = "ValueError"
            /\ sel' = "failed"
            /\ UNCHANGED <<descs, top_n>>
       ELSE LET d == ParseDescs(csvfile)
            IN /\ descs' = d
               /\ IF DOMAIN d = {}
                  THEN /\ raised' = "ValueError"
                       /\ sel' = "failed"
                       /\ UNCHANGED top_n
                  ELSE /\ raised' = ""
                       /\ sel' = "ready"
                       /\ top_n' = top_n_arg
    /\ UNCHANGED <<has_linker, csvfile, top_n_arg, kb, mentions,
                   all_cands, doc, fetch_called, fetched_info>>

(* SpaCyPipelineCandidateSelector.__call__ *)

Retained(cands) == SliceTo(cands, top_n)

MissingDesc(batch) ==
    \E i \in 1..Len(batch) : \E j \in 1..Len(Retained(batch[i])) :
        Retained(batch[i])[j].entity_ \notin DOMAIN descs

BuildResult(batch) ==
    [i \in 1..Len(batch) |->
        [j \in 1..Len(Retained(batch[i])) |->
            EntityCandidate(Retained(batch[i])[j].entity_,
                            descs[Retained(batch[i])[j].entity_])]]

Call(ms) ==
    /\ sel = "ready"
    /\ op' = "__call__"
    /\ mentions' = ms
    /\ warned' = 0
    /\ LET got == GetCandidatesBatch(kb, ms)
           sorted == [i \in 1..Len(got) |-> SortByPriorDesc(got[i])]
       IN /\ all_cands' = sorted
          /\ IF MissingDesc(sorted)
             THEN /\ raised' = "KeyError"
                  /\ ret' = NoReturn
             ELSE /\ raised' = ""
                  /\ ret' = Value(BuildResult(sorted))
    /\ UNCHANGED <<sel, has_linker, csvfile, top_n_arg, descs, top_n, kb,
                   doc, fetch_called, fetched_info>>

(* SpaCyPipelineCandidateSelector.get_entity_description *)

GetEntityDescription(entity_id) ==
    /\ sel = "ready"
    /\ op' = "get_entity_description"
    /\ IF entity_id \notin DOMAIN descs
       THEN /\ warned' = 1
            /\ raised' = "KeyError"
            /\ ret' = NoReturn
       ELSE /\ warned' = 0
            /\ raised' = ""
            /\ ret' = Value(descs[entity_id])
    /\ UNCHANGED <<sel, has_linker, csvfile, top_n_arg, descs, top_n, kb,
                   mentions, all_cands, doc, fetch_called, fetched_info>>

----------------------------------------------------------------------------
(* EntLinkExample.generate *)

Ents == [text : {"a", "b"}, kb_id : {0, 7}]
Docs == SeqsUpTo(Ents, MaxEnts)

NoSolution == "None"
NotFetched == [cands_ents |-> << >>, solutions |-> << >>]
FetchedCands == {<< >>,
                 <<EntityCandidate("Q1", "d1")>>,
                 <<EntityCandidate("Q1", "d1"), EntityCandidate("Q2", "")>>}
\* what kwargs["fetch_entity_info"](example.reference) may hand back
FetchReturns == [cands_ents : SeqsUpTo(FetchedCands, MaxEnts),
                 solutions : SeqsUpTo({"Q1", NoSolution}, MaxEnts)]

EntLinkExampleShortLists(ms, cands_ents, solutions) ==
    [mentions |-> ms,
     entity_descriptions |->
        [i \in 1..Len(cands_ents) |->
            SelectSeq([j \in 1..Len(cands_ents[i]) |-> cands_ents[i][j].description],
                      LAMBDA d : d # "")],
     entity_ids |->
        [i \in 1..Len(cands_ents) |->
            [j \in 1..Len(cands_ents[i]) |-> cands_ents[i][j].id]],
     solutions |-> solutions,
     reasons |-> [i \in 1..Len(solutions) |-> ""]]
EntLinkExample(ms, cands_ents, solutions) ==
    [mentions |-> ms,
     entity_descriptions |->
        [i \in 1..Len(cands_ents) |->
            [j \in 1..Len(cands_ents[i]) |-> cands_ents[i][j].description]],
     entity_ids |->
        [i \in 1..Len(cands_ents) |->
            [j \in 1..Len(cands_ents[i]) |-> cands_ents[i][j].id]],
     solutions |-> solutions,
     reasons |-> [i \in 1..Len(ms) |-> ""]]

\* all([sol is not None for sol in solutions])
AllSolutionsKnownSome(solutions) ==
    solutions = << >> \/ \E i \in 1..Len(solutions) : solutions[i] # NoSolution
AllSolutionsKnown(solutions) ==
    \A i \in 1..Len(solutions) : solutions[i] # NoSolution

NEnts(d) == Len(d)
NSetKbIds(d) == Cardinality({i \in 1..Len(d) : d[i].kb_id # 0})
NoCoverage(d) == NEnts(d) # 0 /\ NSetKbIds(d) = 0
PartialCoverage(d) == NEnts(d) # 0 /\ NEnts(d) # NSetKbIds(d)

Generate(fetched) ==
    /\ op' = "generate"
    /\ IF PartialCoverage(doc)
       THEN /\ warned' = 1
            /\ fetch_called' = FALSE
            /\ fetched_info' = NotFetched
            /\ raised' = ""
            /\ ret' = None
       ELSE /\ warned' = 0
            /\ fetch_called' = TRUE
            /\ fetched_info' = fetched
            /\ IF ~AllSolutionsKnown(fetched.solutions)
               THEN /\ raised' = "AssertionError"
                    /\ ret' = NoReturn
               ELSE /\ raised' = ""
                    /\ ret' = Value(EntLinkExample(
                                 [i \in 1..Len(doc) |-> doc[i].text],
                                 fetched.cands_ents, fetched.solutions))
    /\ UNCHANGED <<sel, has_linker, csvfile, top_n_arg, descs, top_n, kb,
                   mentions, all_cands, doc>>

----------------------------------------------------------------------------
(* Specifications *)

NoKB == [m \in Mentions |-> << >>]

\* construction of the selector from a description table
InitNew ==
    /\ sel = "new"
    /\ has_linker \in BOOLEAN
    /\ csvfile \in Tables
    /\ top_n_arg \in TopNs
    /\ descs = EmptyDict
    /\ top_n = 0
    /\ kb = NoKB
    /\ mentions = << >>
    /\ all_cands = << >>
    /\ doc = << >>
    /\ fetch_called = FALSE
    /\ fetched_info = NotFetched
    /\ op = "none"
    /\ ret = NoReturn
    /\ raised = ""
    /\ warned = 0

NextNew ==
    \/ SelectorInit
    \/ \E id \in Ids : GetEntityDescription(id)

SpecNew == InitNew /\ [][NextNew]_vars

\* a constructed selector in use
r(i, d) == <<i, d>>
\* "Q1" has an empty description, "Q2" a proper one, "Q3" none
SelTables == {<<r("Q2", ""), r("Q1", ""), r("Q2", "d1")>>}

InitSel ==
    /\ sel = "ready"
    /\ has_linker = TRUE
    /\ csvfile \in SelTables
    /\ top_n_arg \in TopNs
    /\ descs = ParseDescs(csvfile)
    /\ top_n = top_n_arg
    /\ kb \in KBs
    /\ mentions = << >>
    /\ all_cands = << >>
    /\ doc = << >>
    /\ fetch_called = FALSE
    /\ fetched_info = NotFetched
    /\ op = "__init__"
    /\ ret = NoReturn
    /\ raised = ""
    /\ warned = 0

NextSel ==
    \/ \E ms \in SeqsUpTo(Mentions, MaxMentions) : Call(ms)
    \/ \E id \in Ids : GetEntityDescription(id)

SpecSel == InitSel /\ [][NextSel]_vars

\* example generation from gold documents
InitGen ==
    /\ sel = "new"
    /\ has_linker = TRUE
    /\ csvfile = << >>
    /\ top_n_arg = 0
    /\ descs = EmptyDict
    /\ top_n = 0
    /\ kb = NoKB
    /\ mentions = << >>
    /\ all_cands = << >>
    /\ doc \in Docs
    /\ fetch_called = FALSE
    /\ fetched_info = NotFetched
    /\ op = "none"
    /\ ret = NoReturn
    /\ raised = ""
    /\ warned = 0

NextGen == \E fetched \in FetchReturns : Generate(fetched)

SpecGen == InitGen /\ [][NextGen]_vars

----------------------------------------------------------------------------
(* Properties *)

Min(a, b) == IF a < b THEN a ELSE b
Returned(o) == op = o /\ raised = "" /\ ret.kind = "value"

\* position of src[p] when src is ordered by descending prior probability
\* with equal probabilities kept in their original order
RankOf(src, p) ==
    1 + Cardinality({q \in 1..Len(src) :
            \/ src[q].prior_prob > src[p].prior_prob
            \/ src[q].prior_prob = src[p].prior_prob /\ q < p})

\* C1: with top_n = k >= 0, a returning __call__ gives each mention exactly
\* the first min(k, n) of its n knowledge-base candidates in descending
\* prior-probability order, equal probabilities in the knowledge base's order.
C1_TopNStableDescending ==
    (Returned("__call__") /\ top_n >= 0) =>
        \A i \in 1..Len(ret.value) :
            LET src == kb[mentions[i]]
                out == ret.value[i]
            IN /\ Len(out) = Min(top_n, Len(src))
               /\ \A j \in 1..Len(out) :
                     \E p \in 1..Len(src) :
                         RankOf(src, p) = j /\ out[j].id = src[p].entity_

\* a returning call that had to reorder, break a tie and truncate
C1_Witness ==
    /\ Returned("__call__")
    /\ top_n >= 1
    /\ \E i \in 1..Len(mentions) :
          LET src == kb[mentions[i]]
          IN /\ Len(src) > top_n
             /\ \E a, b \in 1..Len(src) :
                   a < b /\ src[a].prior_prob < src[b].prior_prob
             /\ \E a, b \in 1..Len(src) :
                   /\ a < b /\ src[a].prior_prob = src[b].prior_prob
                   /\ RankOf(src, a) <= top_n

\* C2: a returning __call__ gives one candidate list per input mention, in
\* the input's order: output[i] holds only candidates the knowledge base has
\* for input[i], and a mention without candidates gets the empty list.
C2_MentionOrderPreserved ==
    Returned("__call__") =>
        /\ Len(ret.value) = Len(mentions)
        /\ \A i \in 1..Len(mentions) :
              /\ \A j \in 1..Len(ret.value[i]) :
                    \E p \in 1..Len(kb[mentions[i]]) :
                        ret.value[i][j].id = kb[mentions[i]][p].entity_
              /\ kb[mentions[i]] = << >> => ret.value[i] = << >>

\* two different mentions, one with candidates and one without
C2_Witness ==
    /\ Returned("__call__")
    /\ top_n >= 1
    /\ Len(mentions) = 2
    /\ mentions[1] # mentions[2]
    /\ \E i, j \in 1..2 :
          /\ kb[mentions[i]] = << >>
          /\ ret.value[j] # << >>

\* C3: generate returns None for every document in which no entity has a
\* knowledge-base identifier set, a document without entities included; no
\* example has zero mentions.
C3_NoIdentifiersGivesNone ==
    op = "generate" =>
        /\ (\A i \in 1..Len(doc) : doc[i].kb_id = 0) => ret.kind = "None"
        /\ ret.kind = "value" => Len(ret.value.mentions) > 0

TwoFieldRows == {i \in 1..Len(csvfile) : Len(csvfile[i]) = 2}
LastRowOf(k) ==
    CHOOSE i \in TwoFieldRows :
        /\ csvfile[i][1] = k
        /\ \A j \in TwoFieldRows : csvfile[j][1] = k => j <= i

\* C4: the description mapping's keys are the first fields of the rows with
\* exactly two fields, each mapped to the second field of the last such row;
\* other rows contribute nothing; construction fails on the table exactly
\* when no row has two fields.
C4_ParseLastWriteWins ==
    (sel \in {"ready", "failed"} /\ has_linker) =>
        /\ DOMAIN descs = {csvfile[i][1] : i \in TwoFieldRows}
        /\ \A k \in DOMAIN descs : descs[k] = csvfile[LastRowOf(k)][2]
        /\ sel = "failed" <=> TwoFieldRows = {}

\* a table with a malformed row and an identifier given two descriptions
C4_Witness ==
    /\ sel = "ready"
    /\ \E i \in 1..Len(csvfile) : Len(csvfile[i]) # 2
    /\ \E i, j \in TwoFieldRows :
          i < j /\ csvfile[i][1] = csvfile[j][1] /\ csvfile[i][2] # csvfile[j][2]

\* C5: every failed lookup of an identifier missing from the description
\* mapping comes with a warning, in get_entity_description and in __call__;
\* a known identifier is described without a warning.
C5_KeyErrorPairedWithWarning ==
    top_n >= 0 =>
        /\ raised = "KeyError" => warned >= 1
        /\ Returned("get_entity_description") => warned = 0

\* C6 as stated: every returned example has all its lists as long as the
\* document has entities, whatever fetch_entity_info returned (stated here
\* for documents that have entities).
C6_AllListsMatchMentions ==
    (Returned("generate") /\ Len(doc) > 0) =>
        LET ex == ret.value
        IN /\ Len(ex.mentions) = Len(doc)
           /\ Len(ex.entity_ids) = Len(doc)
           /\ Len(ex.entity_descriptions) = Len(doc)
           /\ Len(ex.solutions) = Len(doc)
           /\ Len(ex.reasons) = Len(doc)
           /\ \A i \in 1..Len(ex.entity_ids) :
                 Len(ex.entity_ids[i]) = Len(ex.entity_descriptions[i])

\* C6 amended: mentions and reasons are as long as the document has entities;
\* entity_ids and entity_descriptions are as long as the resolver's candidate
\* batch, list by list; solutions is the resolver's solutions.  All five
\* lengths agree when the resolver answered once per entity.
C6_ListsFollowResolver ==
    Returned("generate") =>
        LET ex == ret.value
        IN /\ Len(ex.mentions) = Len(doc)
           /\ Len(ex.reasons) = Len(doc)
           /\ Len(ex.entity_ids) = Len(fetched_info.cands_ents)
           /\ Len(ex.entity_descriptions) = Len(fetched_info.cands_ents)
           /\ \A i \in 1..Len(fetched_info.cands_ents) :
                 /\ Len(ex.entity_ids[i]) = Len(fetched_info.cands_ents[i])
                 /\ Len(ex.entity_descriptions[i]) = Len(fetched_info.cands_ents[i])
           /\ ex.solutions = fetched_info.solutions
           /\ (/\ Len(fetched_info.cands_ents) = Len(doc)
               /\ Len(fetched_info.solutions) = Len(doc))
              <=> (/\ Len(ex.entity_ids) = Len(ex.mentions)
                   /\ Len(ex.solutions) = Len(ex.mentions))

\* an example built from a resolver that answered once per entity, with a
\* candidate whose description is empty
C6_Witness ==
    /\ Returned("generate")
    /\ Len(doc) = 2
    /\ Len(fetched_info.cands_ents) = 2
    /\ Len(fetched_info.solutions) = 2
    /\ \E i \in 1..2 : Len(fetched_info.cands_ents[i]) = 2

\* C7: every candidate __call__ returns has a non-empty description.
C7_DescriptionNonEmpty ==
    (Returned("__call__") /\ top_n >= 0) =>
        \A i \in 1..Len(ret.value) : \A j \in 1..Len(ret.value[i]) :
            ret.value[i][j].description # ""

\* C8: a document with entities of which some but not all have an identifier
\* makes generate warn and return None without invoking the resolver.
C8_PartialCoverageDiscarded ==
    (/\ op = "generate"
     /\ \E i \in 1..Len(doc) : doc[i].kb_id = 0
     /\ \E i \in 1..Len(doc) : doc[i].kb_id # 0) =>
        /\ warned = 1
        /\ ret.kind = "None"
        /\ raised = ""
        /\ ~fetch_called

\* a two-entity document whose second entity has no identifier
C8_Witness ==
    /\ op = "generate"
    /\ Len(doc) = 2
    /\ doc[1].kb_id # 0
    /\ doc[2].kb_id = 0
    /\ ret.kind = "None"

\* C9: when the resolver leaves a mention without a solution, generate fails
\* with an assertion error and returns nothing, so every returned example has
\* a solution in each entry; the failure changes nothing a later generate
\* reads.
C9_MissingSolutionFails ==
    /\ [](/\ (/\ op = "generate"
              /\ fetch_called
              /\ \E i \in 1..Len(fetched_info.solutions) :
                    fetched_info.solutions[i] = NoSolution) =>
                (raised = "AssertionError" /\ ret.kind = "NoReturn")
          /\ Returned("generate") =>
                \A i \in 1..Len(ret.value.solutions) :
                    ret.value.solutions[i] # NoSolution)
    /\ [][raised' = "AssertionError" => doc' = doc]_vars

\* a fully identified document whose resolver leaves the second mention open
C9_Witness ==
    /\ op = "generate"
    /\ Len(doc) = 2
    /\ \A i \in 1..2 : doc[i].kb_id # 0
    /\ raised = "AssertionError"
    /\ Len(fetched_info.solutions) = 2
    /\ fetched_info.solutions[1] # NoSolution
    /\ fetched_info.solutions[2] = NoSolution

\* C10: calls on a constructed selector leave the description mapping, top_n
\* and the candidate lists the knowledge base supplied as they were.
C10_SelectorReadOnly ==
    (sel = "ready" /\ top_n >= 0) =>
        /\ descs = ParseDescs(csvfile)
        /\ top_n = top_n_arg
        /\ all_cands = [i \in 1..Len(all_cands) |-> kb[mentions[i]]]

====
